---- MODULE Spec2Model ----
(***************************************************************************)
(* Model of the inline markdown formatting engine of writ (src/writ.py):   *)
(* the pure text operations of class Format and the offset <-> (row, col)  *)
(* conversion of the editor shell.                                         *)
(*                                                                         *)
(* A text is a sequence of one-character strings.  Python's str indices    *)
(* are 0-based; sequences here are 1-based, so text[i] in Python is        *)
(* text[i + 1] here.  Offsets, rows and columns keep Python's 0-based      *)
(* values.                                                                 *)
(***************************************************************************)
EXTENDS Integers, Sequences, FiniteSets, TLC

VARIABLES text, pos, loc, last, pending

vars == <<text, pos, loc, last, pending>>

(***************************************************************************)
(* Bounds of the model.                                                    *)
(***************************************************************************)
\* longest text the initial state draws
MaxLen == 2
\* longest text a call is still chained on
MaxIn == 4
\* how far outside [0, len(text)] an initial offset may lie
MaxOver == 1
\* longest run of '#' of a drawn heading line
MaxHashes == 7
\* longest whitespace after the marker of a drawn heading line
MaxGap == 1
\* longest run of the delimiter character of a drawn window text
MaxRun == 4
\* how far from WINDOW the padding of a drawn window text may be
MaxSlack == 2
\* longest text of the conversion harness
MaxPosLen == 4
\* longest text the editor starts with
MaxHostInit == 2
\* longest editor text a formatting action is still run on
MaxHostLen == 3
\* most cursor repositions waiting for a refresh
MaxPending == 2
\* largest column the conversion harness draws
MaxCol == 3

(***************************************************************************)
(* Characters.                                                             *)
(***************************************************************************)
NL == "\n"

\* the backquote character (written out, as the lexer reserves the symbol)
BQ == "backquote"

\* characters of the texts the format harness draws
Alphabet == {"a", "#", "-", " ", NL, "*", BQ}

\* characters of the texts the conversion harness draws
PosAlphabet == {"a", NL}

\* the characters str.lstrip and the regex \s take as whitespace, among
\* those a line of the model can hold
Whitespace == {" ", "\t", "\r"}

RECURSIVE TextsOfLen(_, _)
TextsOfLen(A, n) ==
    IF n = 0 THEN {<<>>}
    ELSE {Append(t, c) : t \in TextsOfLen(A, n - 1), c \in A}

TextsUpTo(A, n) == UNION {TextsOfLen(A, k) : k \in 0..n}

(***************************************************************************)
(* Python built-ins used by the code.                                      *)
(***************************************************************************)
max(a, b) == IF a >= b THEN a ELSE b

min(a, b) == IF a <= b THEN a ELSE b

\* a slice bound as Python normalises it: negative counts from the end,
\* then clamps into [0, n]
SliceIndex(i, n) == IF i < 0 THEN max(i + n, 0) ELSE min(i, n)

\* s[lo:hi]
Slice(s, lo, hi) == SubSeq(s, SliceIndex(lo, Len(s)) + 1, SliceIndex(hi, Len(s)))

\* s[:hi]
SliceTo(s, hi) == Slice(s, 0, hi)

\* s[lo:]
SliceFrom(s, lo) == SubSeq(s, SliceIndex(lo, Len(s)) + 1, Len(s))

\* s[i] raises IndexError outside [-len(s), len(s) - 1]
IndexRaises(s, i) == i >= Len(s) \/ i < -Len(s)

\* s[i] when it does not raise
Index(s, i) == IF i < 0 THEN s[i + Len(s) + 1] ELSE s[i + 1]

\* c * n for a one-character string c
Repeat(c, n) == [i \in 1..n |-> c]

\* text.split(NL): always at least one line
RECURSIVE split(_)
split(s) ==
    IF \A i \in 1..Len(s) : s[i] # NL THEN <<s>>
    ELSE LET k == CHOOSE i \in 1..Len(s) :
                      s[i] = NL /\ \A j \in 1..(i - 1) : s[j] # NL
         IN  <<SubSeq(s, 1, k - 1)>> \o split(SubSeq(s, k + 1, Len(s)))

\* NL.join(lines)
RECURSIVE join(_)
join(lines) ==
    IF Len(lines) = 0 THEN <<>>
    ELSE IF Len(lines) = 1 THEN lines[1]
    ELSE lines[1] \o <<NL>> \o join(Tail(lines))

\* number of leading whitespace characters of a line
RECURSIVE LeadingSpace(_)
LeadingSpace(s) ==
    IF Len(s) > 0 /\ s[1] \in Whitespace THEN 1 + LeadingSpace(Tail(s)) ELSE 0

\* line.lstrip()
lstrip(s) == SubSeq(s, LeadingSpace(s) + 1, Len(s))

\* s.startswith(p)
startswith(s, p) == Len(s) >= Len(p) /\ SubSeq(s, 1, Len(p)) = p

(***************************************************************************)
(* class Format.                                                           *)
(***************************************************************************)
\* the 20 of "pos - 20" and "pos + 20" in Format._wrap
WINDOW == 20

\* what a call returns: the pair (text, pos), or an exception raised
Return(t, p) == [text |-> t, pos |-> p, raised |-> FALSE]

Raise(t, p) == [text |-> t, pos |-> p, raised |-> TRUE]

\* re.finditer(re.escape(wrapper), s): the start indices (0-based) of the
\* non-overlapping occurrences of wrapper in s, scanning from index i
RECURSIVE finditer(_, _, _)
finditer(wrapper, s, i) ==
    IF i + Len(wrapper) > Len(s) THEN <<>>
    ELSE IF SubSeq(s, i + 1, i + Len(wrapper)) = wrapper
         THEN <<i>> \o finditer(wrapper, s, i + Len(wrapper))
         ELSE finditer(wrapper, s, i + 1)

\* EnclosingPair over range(0, len(matches) - 1): every occurrence is
\* paired with the next one
RECURSIVE EnclosingPairStepOne(_, _, _, _)
EnclosingPairStepOne(matches, wlen, search_pos, i) ==
    IF i >= Len(matches) - 1 THEN -1
    ELSE IF /\ matches[i + 1] + wlen <= search_pos
            /\ search_pos <= matches[i + 2]
         THEN i
         ELSE EnclosingPairStepOne(matches, wlen, search_pos, i + 1)

\* the loop of Format._wrap over range(0, len(matches) - 1, 2): the index i
\* of the first pair (matches[i], matches[i + 1]) around search_pos, or -1
RECURSIVE EnclosingPair(_, _, _, _)
EnclosingPair(matches, wlen, search_pos, i) ==
    IF i >= Len(matches) - 1 THEN -1
    ELSE IF /\ i + 1 < Len(matches)
            /\ matches[i + 1] + wlen <= search_pos
            /\ search_pos <= matches[i + 2]
         THEN i
         ELSE EnclosingPair(matches, wlen, search_pos, i + 2)

\* wrap with the whole text searched instead of the window
wrapWholeText(t, p, wrapper) ==
    LET wlen == Len(wrapper)
        matches == finditer(wrapper, t, 0)
        i == EnclosingPair(matches, wlen, p, 0)
    IN  IF i >= 0
        THEN LET actual_start == matches[i + 1]
                 actual_end == matches[i + 2] + wlen
                 content == Slice(t, actual_start + wlen, actual_end - wlen)
             IN  Return(SliceTo(t, actual_start) \o content \o SliceFrom(t, actual_end),
                        actual_start + Len(content))
        ELSE Return(SliceTo(t, p) \o wrapper \o wrapper \o SliceFrom(t, p), p + wlen)

wrap(t, p, wrapper) ==
    LET wlen == Len(wrapper)
        left == max(0, p - WINDOW)
        right == min(Len(t), p + WINDOW)
        search_text == Slice(t, left, right)
        search_pos == p - left
        matches == finditer(wrapper, search_text, 0)
        i == EnclosingPair(matches, wlen, search_pos, 0)
    IN  IF i >= 0
        THEN LET actual_start == left + matches[i + 1]
                 actual_end == left + matches[i + 2] + wlen
                 content == Slice(t, actual_start + wlen, actual_end - wlen)
             IN  Return(SliceTo(t, actual_start) \o content \o SliceFrom(t, actual_end),
                        actual_start + Len(content))
        ELSE Return(SliceTo(t, p) \o wrapper \o wrapper \o SliceFrom(t, p), p + wlen)

bold(t, p) == wrap(t, p, <<"*", "*">>)

italic(t, p) == wrap(t, p, <<"*">>)

inlineCode(t, p) == wrap(t, p, <<BQ>>)

\* the line-location loop of heading, listItem and _set_cursor_position:
\* the first line i with current_pos + len(line) >= p, with found = FALSE
\* when the loop ends without a break
RECURSIVE LocateLine(_, _, _, _)
LocateLine(lines, p, i, current_pos) ==
    IF i >= Len(lines) THEN [found |-> FALSE, row |-> i, current_pos |-> current_pos]
    ELSE IF current_pos + Len(lines[i + 1]) >= p
         THEN [found |-> TRUE, row |-> i, current_pos |-> current_pos]
         ELSE LocateLine(lines, p, i + 1, current_pos + Len(lines[i + 1]) + 1)

\* TargetLine without the assignment at the break: the first line always
TargetLineFirst(lines, p) == 0

\* target_line of heading and listItem: initialised to 0, set at the break
TargetLine(lines, p) ==
    LET l == LocateLine(lines, p, 0, 0)
    IN  IF l.found THEN l.row ELSE 0

\* number of leading '#' characters of a line
RECURSIVE HashRun(_)
HashRun(s) == IF Len(s) > 0 /\ s[1] = "#" THEN 1 + HashRun(Tail(s)) ELSE 0

\* HeadingMatchEnd with the pattern ^#\s*, which strips one '#' only
HeadingMatchEndOneHash(line) ==
    IF HashRun(line) = 0 THEN -1
    ELSE 1 + LeadingSpace(SubSeq(line, 2, Len(line)))

\* re.match(r'^(#{1,6})\s*', line).end(), or -1 when there is no match
HeadingMatchEnd(line) ==
    LET k == min(HashRun(line), 6)
    IN  IF k = 0 THEN -1
        ELSE k + LeadingSpace(SubSeq(line, k + 1, Len(line)))

\* new_line of Format.heading
HeadingLine(line, level) ==
    LET e == HeadingMatchEnd(line)
    IN  IF e >= 0
        THEN Repeat("#", level) \o <<" ">> \o SliceFrom(line, e)
        ELSE Repeat("#", level) \o <<" ">> \o line

heading(t, p, level) ==
    IF ~(1 <= level /\ level <= 6) THEN Return(t, p)
    ELSE LET lines == split(t)
             current_pos == LocateLine(lines, p, 0, 0).current_pos
             target_line == TargetLine(lines, p)
             line == lines[target_line + 1]
             new_line == HeadingLine(line, level)
             old_len == Len(line)
             pos_in_line == p - current_pos
         IN  Return(join([lines EXCEPT ![target_line + 1] = new_line]),
                    current_pos + min(pos_in_line + (Len(new_line) - old_len),
                                      Len(new_line)))

link_text == <<"[", "t", "e", "x", "t", "]", "(", "u", "r", "l", ")">>

\* link with the cursor left after the inserted placeholder
linkCursorAfter(t, p) ==
    Return(SliceTo(t, p) \o link_text \o SliceFrom(t, p), p + Len(link_text))

link(t, p) == Return(SliceTo(t, p) \o link_text \o SliceFrom(t, p), p + 1)

fence == <<BQ, BQ, BQ>>

\* "```\n\n```\n"
block_at_line_start == fence \o <<NL, NL>> \o fence \o <<NL>>

\* "\n```\n\n```\n"
block_in_line == <<NL>> \o block_at_line_start

\* codeBlock without the line-start detection
codeBlockNoLineCheck(t, p) ==
    Return(SliceTo(t, p) \o block_at_line_start \o SliceFrom(t, p), p + 4)

\* line_start is computed and never used; text[pos - 1] raises IndexError
\* when pos - 1 is no index of text
codeBlock(t, p) ==
    IF p > 0 /\ IndexRaises(t, p - 1) THEN Raise(t, p)
    ELSE IF p > 0 /\ Index(t, p - 1) # NL
         THEN Return(SliceTo(t, p) \o block_in_line \o SliceFrom(t, p), p + 5)
         ELSE Return(SliceTo(t, p) \o block_at_line_start \o SliceFrom(t, p), p + 4)

list_marker == <<"-", " ">>

\* ListLine with the marker inserted before the indentation
ListLineMarkerFirst(line) ==
    IF startswith(lstrip(line), list_marker)
    THEN SliceTo(line, Len(line) - Len(lstrip(line))) \o SliceFrom(lstrip(line), 2)
    ELSE list_marker \o line

\* new_line of Format.listItem
ListLine(line) ==
    LET stripped == lstrip(line)
        indent == SliceTo(line, Len(line) - Len(stripped))
    IN  IF startswith(stripped, list_marker)
        THEN indent \o SliceFrom(stripped, 2)
        ELSE indent \o list_marker \o stripped

\* pos_change of Format.listItem
ListPosChange(line) == IF startswith(lstrip(line), list_marker) THEN -2 ELSE 2

listItem(t, p) ==
    LET lines == split(t)
        target_line == TargetLine(lines, p)
        line == lines[target_line + 1]
    IN  Return(join([lines EXCEPT ![target_line + 1] = ListLine(line)]),
               p + ListPosChange(line))

(***************************************************************************)
(* The format harness: a text and an offset are drawn, and each step calls *)
(* one operation of Format on the current (text, pos) and keeps what it    *)
(* returns, so every call is fed the previous call's output.  last holds   *)
(* the call that produced the current state: its name, its level argument  *)
(* (0 when it has none), the text and offset it was given, whether it      *)
(* raised, and the name of the call before it.                             *)
(***************************************************************************)
NoCall == [op |-> "none", level |-> 0, text |-> <<>>, pos |-> 0,
           loc |-> <<0, 0>>, raised |-> FALSE, before |-> "none"]

Levels == 0..7

\* every text of at most MaxLen characters
ShortTexts == TextsUpTo(Alphabet, MaxLen)

\* lines that start with a heading marker: an optional line before, a run
\* of '#', whitespace, content
HeadingTexts ==
    {before \o Repeat("#", k) \o Repeat(" ", j) \o content :
        before \in {<<>>, <<"a", NL>>},
        k \in 0..MaxHashes,
        j \in 0..MaxGap,
        content \in {<<>>, <<"a">>}}

\* texts that already hold a link
LinkTexts ==
    {before \o link_text \o after :
        before \in {<<>>, <<"a">>}, after \in {<<>>, <<"a">>}}

Init ==
    /\ text \in ShortTexts \cup HeadingTexts \cup LinkTexts
    /\ pos \in (0 - MaxOver)..(Len(text) + MaxOver)
    /\ loc = <<0, 0>>
    /\ last = NoCall
    /\ pending = <<>>

\* one call func(text, pos, *args) whose result is r
Call(op, level, r) ==
    /\ Len(text) <= MaxIn \/ last.op = "none"
    /\ ~last.raised
    /\ text' = r.text
    /\ pos' = r.pos
    /\ last' = [op |-> op, level |-> level, text |-> text, pos |-> pos,
                loc |-> loc, raised |-> r.raised,
                before |-> last.op]
    /\ UNCHANGED <<loc, pending>>

CallBold == Call("bold", 0, bold(text, pos))

CallItalic == Call("italic", 0, italic(text, pos))

CallInlineCode == Call("inlineCode", 0, inlineCode(text, pos))

CallHeading == \E level \in Levels : Call("heading", level, heading(text, pos, level))

CallLink == Call("link", 0, link(text, pos))

CallCodeBlock == Call("codeBlock", 0, codeBlock(text, pos))

CallListItem == Call("listItem", 0, listItem(text, pos))

Next ==
    \/ CallBold
    \/ CallItalic
    \/ CallInlineCode
    \/ CallHeading
    \/ CallLink
    \/ CallCodeBlock
    \/ CallListItem

Spec == Init /\ [][Next]_vars

(***************************************************************************)
(* The offset <-> (row, column) conversion of the editor shell.            *)
(***************************************************************************)
\* the loop "for i in range(row): if i < len(lines): pos += len(lines[i]) + 1"
RECURSIVE LinesBefore(_, _)
LinesBefore(lines, row) ==
    IF row <= 0 THEN 0
    ELSE LinesBefore(lines, row - 1)
         + (IF row - 1 < Len(lines) THEN Len(lines[row]) + 1 ELSE 0)

\* get_cursor_position without the clamp of the column to the line length
get_cursor_position_unclamped(t, l) ==
    LinesBefore(split(t), l[1])
    + (IF l[1] < Len(split(t)) THEN l[2] ELSE 0)

\* Writ._get_cursor_position with editor.text = t, editor.cursor_location = l
get_cursor_position(t, l) ==
    LET row == l[1]
        col == l[2]
        lines == split(t)
    IN  LinesBefore(lines, row)
        + (IF row < Len(lines) THEN min(col, Len(lines[row + 1])) ELSE 0)

\* Writ._set_cursor_position: the new editor.cursor_location
set_cursor_position(t, p) ==
    LET lines == split(t)
        l == LocateLine(lines, p, 0, 0)
    IN  IF l.found THEN <<l.row, p - l.current_pos>>
        ELSE <<Len(lines) - 1, Len(lines[Len(lines)])>>

(***************************************************************************)
(* The conversion harness: a text, a cursor location and an offset are     *)
(* drawn, and each step converts one into the other.                       *)
(***************************************************************************)
InitPos ==
    /\ text \in TextsUpTo(PosAlphabet, MaxPosLen)
    /\ pos \in 0..(Len(text) + MaxOver)
    /\ loc \in (0..Len(split(text))) \X (0..MaxCol)
    /\ last = NoCall
    /\ pending = <<>>

GetCursorPosition ==
    /\ pos' = get_cursor_position(text, loc)
    /\ last' = [op |-> "get", level |-> 0, text |-> text, pos |-> pos,
                loc |-> loc, raised |-> FALSE, before |-> last.op]
    /\ UNCHANGED <<text, loc, pending>>

SetCursorPosition ==
    /\ loc' = set_cursor_position(text, pos)
    /\ last' = [op |-> "set", level |-> 0, text |-> text, pos |-> pos,
                loc |-> loc, raised |-> FALSE, before |-> last.op]
    /\ UNCHANGED <<text, pos, pending>>

NextPos ==
    \/ GetCursorPosition
    \/ SetCursorPosition

SpecPos == InitPos /\ [][NextPos]_vars

(***************************************************************************)
(* Vocabulary of the properties.  T and P below are the text and offset a  *)
(* call was given (last.text, last.pos); text and pos are what it          *)
(* returned.                                                               *)
(***************************************************************************)
WrapOps == {"bold", "italic", "inlineCode"}

FormatOps == WrapOps \cup {"heading", "link", "codeBlock", "listItem"}

\* the last call was a formatting operation, heading with a level in 1..6
FormatCall ==
    /\ last.op \in FormatOps
    /\ last.op = "heading" => last.level \in 1..6

\* the offset the last call was given lies in [0, length(T)]
InRange == 0 <= last.pos /\ last.pos <= Len(last.text)

\* start offset of the line of t that holds offset p (0 <= p <= length(t))
LineStartOf(t, p) ==
    CHOOSE b \in 0..p :
        /\ b = 0 \/ t[b] = NL
        /\ \A j \in (b + 1)..p : t[j] # NL

\* end offset of the line of t that holds offset p
LineEndOf(t, p) ==
    CHOOSE e \in p..Len(t) :
        /\ e = Len(t) \/ t[e + 1] = NL
        /\ \A j \in (p + 1)..e : t[j] # NL

\* the line of t that holds offset p
LineOf(t, p) == SubSeq(t, LineStartOf(t, p) + 1, LineEndOf(t, p))

\* t with the line that holds offset p replaced by new
WithLine(t, p, new) ==
    SubSeq(t, 1, LineStartOf(t, p)) \o new \o SubSeq(t, LineEndOf(t, p) + 1, Len(t))

\* t with ins inserted at offset p
InsertAt(t, p, ins) == SubSeq(t, 1, p) \o ins \o SubSeq(t, p + 1, Len(t))

\* an offset clamped into [0, n]
Clamp(p, n) == IF p < 0 THEN 0 ELSE IF p > n THEN n ELSE p

\* the result of operation op on (t, p)
Apply(op, level, t, p) ==
    CASE op = "bold" -> bold(t, p)
      [] op = "italic" -> italic(t, p)
      [] op = "inlineCode" -> inlineCode(t, p)
      [] op = "heading" -> heading(t, p, level)
      [] op = "link" -> link(t, p)
      [] op = "codeBlock" -> codeBlock(t, p)
      [] op = "listItem" -> listItem(t, p)

(***************************************************************************)
(* C1  Bounds safety: every formatting operation (heading with level       *)
(* 1..6), given any text and an offset with 0 <= offset <= length(text),   *)
(* returns a pair with 0 <= newOffset <= length(newText).                  *)
(* The code breaks it: listItem subtracts 2 and heading adds a negative    *)
(* length delta without a lower clamp.                                     *)
(***************************************************************************)
C1_BoundsSafety ==
    (FormatCall /\ InRange) =>
        /\ ~last.raised
        /\ 0 <= pos
        /\ pos <= Len(text)

(***************************************************************************)
(* C2  Wrap toggle round trip: when a wrap toggle given an in-range offset *)
(* took the insert branch, the same toggle applied to what it returned     *)
(* gives back exactly the original text and offset.                        *)
(* The code breaks it when a delimiter character precedes the cursor: the  *)
(* consecutive pairing then pairs the stray occurrence with the inserted   *)
(* opening delimiter, and the second call inserts again.                   *)
(***************************************************************************)
WrapperLen(op) == IF op = "bold" THEN 2 ELSE 1

\* the last call was a wrap toggle that inserted its two delimiter copies
WrapInserted ==
    /\ last.op \in WrapOps
    /\ InRange
    /\ Len(text) = Len(last.text) + 2 * WrapperLen(last.op)

C2_WrapRoundTrip ==
    [][(WrapInserted /\ last'.op = last.op) =>
          (text' = last.text /\ pos' = last.pos)]_vars

(***************************************************************************)
(* C3  Offset and position conversion are mutual inverses within document  *)
(* bounds: converting a position (row, column) with row in [0, lineCount)  *)
(* to an offset and that offset back gives (row, min(column,               *)
(* lineLength(row))); converting an offset in [0, length(text)] to a       *)
(* position and that position back gives the offset.                       *)
(***************************************************************************)
\* a position was converted to an offset and the offset back: last.loc is
\* the position the round trip began with, as the first conversion leaves
\* the cursor location alone
FromPosition ==
    /\ last.op = "set"
    /\ last.before = "get"
    /\ last.loc[1] < Len(split(text))

\* an offset was converted to a position and the position back: last.pos
\* is the offset the round trip began with
FromOffset ==
    /\ last.op = "get"
    /\ last.before = "set"
    /\ InRange

C3_ConversionInverse ==
    /\ FromPosition =>
        /\ loc[1] = last.loc[1]
        /\ loc[2] = (IF last.loc[2] <= Len(split(text)[last.loc[1] + 1])
                     THEN last.loc[2]
                     ELSE Len(split(text)[last.loc[1] + 1]))
    /\ FromOffset => pos = last.pos

\* a round trip from a column past the end of a line that is not the first
C3_Witness ==
    /\ FromPosition
    /\ last.loc[1] > 0
    /\ last.loc[2] > loc[2]
    /\ loc[2] > 0

(***************************************************************************)
(* C4  Every formatting operation is total and clamps: for every text and  *)
(* every integer offset the call returns a pair without raising, and an    *)
(* out-of-range offset gives the result of that offset clamped into        *)
(* [0, length(text)].                                                      *)
(* The code breaks it: no operation clamps, and codeBlock reads            *)
(* text[pos - 1] and raises IndexError for an offset past the end.         *)
(***************************************************************************)
C4_TotalAndClamped ==
    FormatCall =>
        LET r == Apply(last.op, last.level, last.text,
                       Clamp(last.pos, Len(last.text)))
        IN  /\ ~last.raised
            /\ text = r.text
            /\ pos = r.pos

(***************************************************************************)
(* C5  Heading replacement is exclusive: when the target line starts with  *)
(* a run of 1 to 6 '#' characters, optionally followed by whitespace,      *)
(* setHeading with level L in 1..6 rewrites that line to exactly L '#'     *)
(* characters, one space and the content after the old marker and its      *)
(* whitespace; the rest of the text is untouched.                          *)
(***************************************************************************)
\* line starts with exactly k '#' characters followed by exactly w
\* whitespace characters
MarkerIs(line, k, w) ==
    /\ k + w <= Len(line)
    /\ \A j \in 1..k : line[j] = "#"
    /\ k = Len(line) \/ line[k + 1] # "#"
    /\ \A j \in (k + 1)..(k + w) : line[j] \in Whitespace
    /\ k + w = Len(line) \/ line[k + w + 1] \notin Whitespace

C5_HeadingExclusive ==
    (FormatCall /\ last.op = "heading" /\ InRange) =>
        LET line == LineOf(last.text, last.pos)
        IN  \A k \in 1..6 : \A w \in 0..Len(line) :
                MarkerIs(line, k, w) =>
                    text = WithLine(last.text, last.pos,
                                    [j \in 1..last.level |-> "#"] \o <<" ">>
                                    \o SubSeq(line, k + w + 1, Len(line)))

\* an H5 line with content, on the second line of the text, became H3
C5_Witness ==
    /\ FormatCall /\ last.op = "heading" /\ InRange
    /\ last.level = 3
    /\ LineStartOf(last.text, last.pos) > 0
    /\ MarkerIs(LineOf(last.text, last.pos), 5, 1)
    /\ Len(text) = Len(last.text) - 2

(***************************************************************************)
(* C6  List toggle symmetry: when the target line, after its leading       *)
(* whitespace, does not start with "- ", toggleListItem inserts "- "       *)
(* right after the leading whitespace and adds 2 to the offset; applied    *)
(* again to what it returned, it gives back exactly the original text and  *)
(* offset.                                                                 *)
(***************************************************************************)
\* number of leading whitespace characters of line
IndentOf(line) ==
    CHOOSE n \in 0..Len(line) :
        /\ \A j \in 1..n : line[j] \in Whitespace
        /\ n = Len(line) \/ line[n + 1] \notin Whitespace

\* the last call was toggleListItem on a line without the marker
ListUnmarked ==
    /\ last.op = "listItem"
    /\ InRange
    /\ LET line == LineOf(last.text, last.pos)
           n == IndentOf(line)
       IN  ~(Len(line) >= n + 2 /\ line[n + 1] = "-" /\ line[n + 2] = " ")

\* the last call inserted the marker after the indentation
ListInserted ==
    /\ text = InsertAt(last.text,
                       LineStartOf(last.text, last.pos)
                           + IndentOf(LineOf(last.text, last.pos)),
                       <<"-", " ">>)
    /\ pos = last.pos + 2

C6_ListToggleSymmetry ==
    [][/\ ListUnmarked' => ListInserted'
       /\ (ListUnmarked /\ last'.op = "listItem") =>
            (text' = last.text /\ pos' = last.pos)]_vars

\* the marker of an indented line with content was inserted and removed
C6_Witness ==
    /\ last.op = "listItem"
    /\ last.before = "listItem"
    /\ InRange
    /\ Len(text) = Len(last.text) - 2
    /\ pos = last.pos - 2
    /\ pos >= 0
    /\ IndentOf(LineOf(text, pos)) > 0
    /\ IndentOf(LineOf(text, pos)) < Len(LineOf(text, pos))

(***************************************************************************)
(* C7  Link insertion is insert-only: for every text and in-range offset   *)
(* insertLink returns the text with "[text](url)" inserted at the offset   *)
(* and the offset plus 1, also when a link already surrounds the cursor.   *)
(***************************************************************************)
C7_LinkInsertOnly ==
    (last.op = "link" /\ InRange) =>
        /\ ~last.raised
        /\ text = InsertAt(last.text, last.pos,
                           <<"[", "t", "e", "x", "t", "]", "(", "u", "r", "l", ")">>)
        /\ pos = last.pos + 1

\* a link was inserted with the cursor in the label of an existing link
C7_Witness ==
    /\ last.op = "link"
    /\ last.pos >= 2
    /\ last.pos + 10 <= Len(last.text)
    /\ SubSeq(last.text, last.pos - 1, last.pos + 9) = link_text
    /\ Len(text) = Len(last.text) + 11

(***************************************************************************)
(* C8  Code block insertion: at offset 0 or right after a newline the      *)
(* block fence, newline, newline, fence, newline is inserted at the offset *)
(* and the new offset is offset + 4; otherwise the same block preceded by  *)
(* one newline is inserted and the new offset is offset + 5.  In both      *)
(* cases the characters just before and at the new offset are newlines,    *)
(* and each inserted fence starts its line and is followed by a newline.   *)
(***************************************************************************)
\* the three backquotes at offset f of t are a line of their own
FenceAlone(t, f) ==
    /\ f + 4 <= Len(t)
    /\ f = 0 \/ t[f] = NL
    /\ t[f + 1] = BQ /\ t[f + 2] = BQ /\ t[f + 3] = BQ
    /\ t[f + 4] = NL

\* the offset the last call was given is at the start of a line
AtLineStart == last.pos = 0 \/ last.text[last.pos] = NL

C8_CodeBlock ==
    (last.op = "codeBlock" /\ InRange) =>
        LET lead == IF AtLineStart THEN <<>> ELSE <<NL>>
            first == last.pos + Len(lead)
        IN  /\ ~last.raised
            /\ text = InsertAt(last.text, last.pos,
                               lead \o <<BQ, BQ, BQ, NL, NL, BQ, BQ, BQ, NL>>)
            /\ pos = last.pos + Len(lead) + 4
            /\ text[pos] = NL
            /\ text[pos + 1] = NL
            /\ FenceAlone(text, first)
            /\ FenceAlone(text, first + 5)

\* a block was inserted in the middle of a line
C8_Witness ==
    /\ last.op = "codeBlock"
    /\ 0 < last.pos /\ last.pos < Len(last.text)
    /\ last.text[last.pos] \notin {NL, BQ}
    /\ last.text[last.pos + 1] # NL
    /\ pos = last.pos + 5

(***************************************************************************)
(* C9  Target line for an offset past the end: with offset > length(text)  *)
(* in a text of more than one line, setHeading and toggleListItem rewrite  *)
(* the last line, leave every earlier line alone and do not fail.          *)
(* The code breaks it: target_line stays at its initial 0 when the loop    *)
(* ends without a break, so the first line is rewritten.                   *)
(***************************************************************************)
C9_PastEndTargetsLastLine ==
    (/\ FormatCall
     /\ last.op \in {"heading", "listItem"}
     /\ last.pos > Len(last.text)
     /\ \E j \in 1..Len(last.text) : last.text[j] = NL) =>
        LET b == LineStartOf(last.text, Len(last.text))
            line == SubSeq(last.text, b + 1, Len(last.text))
        IN  /\ ~last.raised
            /\ text = SubSeq(last.text, 1, b)
                      \o (IF last.op = "heading"
                          THEN HeadingLine(line, last.level)
                          ELSE ListLine(line))

(***************************************************************************)
(* C10  Heading cursor remap: for every text, level in 1..6 and in-range   *)
(* offset, setHeading returns the old offset shifted by exactly            *)
(* length(newLine) - length(oldLine), and the new offset stays on the      *)
(* rewritten line: lineStart <= newOffset <= lineStart + length(newLine).  *)
(* The code breaks it: with a shorter new marker and the cursor inside the *)
(* old one the shifted offset falls before the start of the line.          *)
(***************************************************************************)
C10_HeadingCursorRemap ==
    (FormatCall /\ last.op = "heading" /\ InRange) =>
        LET b == LineStartOf(last.text, last.pos)
            delta == Len(text) - Len(last.text)
            newLen == Len(LineOf(last.text, last.pos)) + delta
        IN  /\ pos = last.pos + delta
            /\ b <= pos
            /\ pos <= b + newLen

(***************************************************************************)
(* The window harness: the wrap toggles on texts longer than the search    *)
(* window.  A drawn text is a run of a delimiter character, a padding of   *)
(* about WINDOW plain characters (or none) and a second run, so that a     *)
(* delimiter lies inside, outside or across an edge of the window of the   *)
(* offset drawn; short texts are drawn as well.                            *)
(***************************************************************************)
WindowTexts ==
    {Repeat(c, k1) \o Repeat("a", n) \o Repeat(c, k2) :
        c \in {"*", BQ},
        k1 \in 0..MaxRun,
        k2 \in 0..MaxRun,
        n \in {0} \cup ((WINDOW - MaxSlack)..(WINDOW + MaxSlack))}

InitWindow ==
    /\ text \in WindowTexts \cup TextsUpTo({"a", "*", BQ}, MaxLen)
    /\ pos \in 0..Len(text)
    /\ loc = <<0, 0>>
    /\ last = NoCall
    /\ pending = <<>>

NextWindow ==
    \/ CallBold
    \/ CallItalic
    \/ CallInlineCode

SpecWindow == InitWindow /\ [][NextWindow]_vars

(***************************************************************************)
(* Vocabulary of the window properties, for the wrap toggle last called.   *)
(***************************************************************************)
\* the delimiter of a wrap toggle
WrapperOf(op) ==
    IF op = "bold" THEN <<"*", "*">>
    ELSE IF op = "italic" THEN <<"*">>
    ELSE <<BQ>>

\* the window [WinLeft, WinRight) of the offset the last call was given
WinLeft == IF last.pos - 20 > 0 THEN last.pos - 20 ELSE 0

WinRight == IF last.pos + 20 < Len(last.text) THEN last.pos + 20 ELSE Len(last.text)

\* t without the n characters at offset a and the n characters at offset b
Without(t, a, b, n) ==
    SubSeq(t, 1, a) \o SubSeq(t, a + n + 1, b) \o SubSeq(t, b + n + 1, Len(t))

\* the last call inserted two copies of its delimiter at the offset
InsertedAtCursor ==
    /\ text = InsertAt(last.text, last.pos,
                       WrapperOf(last.op) \o WrapperOf(last.op))
    /\ pos = last.pos + Len(WrapperOf(last.op))

(***************************************************************************)
(* C11  Wrap-toggle removal: the delimiter occurrences inside the window   *)
(* are paired consecutively (0 with 1, 2 with 3, a trailing odd one        *)
(* ignored); when the cursor lies in the closed span from the end of a     *)
(* pair's opening occurrence to the start of its closing occurrence, the   *)
(* result is the text without exactly those two occurrences, and the new   *)
(* offset is the position right after the unwrapped content.               *)
(***************************************************************************)
\* start offsets, in the text, of the delimiter occurrences in the window
WindowOccurrences ==
    LET m == finditer(WrapperOf(last.op),
                      SubSeq(last.text, WinLeft + 1, WinRight), 0)
    IN  [j \in 1..Len(m) |-> WinLeft + m[j]]

\* the cursor lies in the closed span of the pair (occ[j], occ[j + 1])
InSpan(occ, j) ==
    /\ occ[j] + Len(WrapperOf(last.op)) <= last.pos
    /\ last.pos <= occ[j + 1]

C11_WrapRemoval ==
    (last.op \in WrapOps /\ InRange) =>
        LET occ == WindowOccurrences
            wlen == Len(WrapperOf(last.op))
        IN  /\ \A j \in 1..(Len(occ) - 1) :
                    (j % 2 = 1 /\ InSpan(occ, j)) =>
                        /\ text = Without(last.text, occ[j], occ[j + 1], wlen)
                        /\ pos = occ[j + 1] - wlen
            \* an occurrence without a partner, or a span between two
            \* pairs, removes nothing
            /\ (\A j \in 1..(Len(occ) - 1) : ~(j % 2 = 1 /\ InSpan(occ, j))) =>
                    Len(text) > Len(last.text)

\* the second pair of five occurrences was removed from a text longer
\* than the window
C11_Witness ==
    /\ last.op \in WrapOps
    /\ InRange
    /\ Len(last.text) > 20
    /\ Len(WindowOccurrences) = 5
    /\ InSpan(WindowOccurrences, 3)
    /\ Len(text) = Len(last.text) - 2 * Len(WrapperOf(last.op))

(***************************************************************************)
(* C12  Bounded local scan: the wrap toggle deletes no character at an     *)
(* index outside [max(0, offset - 20), min(length(text), offset + 20));    *)
(* when the opening or the closing delimiter of the pair around the cursor *)
(* lies outside that window, the pair is not removed: two delimiter copies *)
(* are inserted at the offset and offset + delimiter length is returned.   *)
(* The pair around the cursor is the pair of the consecutive pairing of    *)
(* the occurrences in the whole text; an occurrence lies outside the       *)
(* window when none of its characters is inside.                           *)
(***************************************************************************)
\* start offsets of the delimiter occurrences in the whole text
TextOccurrences == finditer(WrapperOf(last.op), last.text, 0)

\* the occurrence at offset a has no character in the window
OutsideWindow(a) ==
    \/ a + Len(WrapperOf(last.op)) <= WinLeft
    \/ a >= WinRight

\* the occurrence at offset a has every character in the window
InsideWindow(a) ==
    /\ WinLeft <= a
    /\ a + Len(WrapperOf(last.op)) <= WinRight

C12_BoundedScan ==
    (last.op \in WrapOps /\ InRange) =>
        LET occ == TextOccurrences
            wlen == Len(WrapperOf(last.op))
        IN  /\ \/ InsertedAtCursor
               \/ \E a \in WinLeft..(WinRight - wlen) :
                    \E b \in (a + wlen)..(WinRight - wlen) :
                        text = Without(last.text, a, b, wlen)
            /\ \A j \in 1..(Len(occ) - 1) :
                    (/\ j % 2 = 1
                     /\ InSpan(occ, j)
                     /\ OutsideWindow(occ[j]) \/ OutsideWindow(occ[j + 1])) =>
                        InsertedAtCursor

\* the cursor is at the closing delimiter of a pair whose opening delimiter
\* is more than 20 characters back, and the toggle inserted
C12_Witness ==
    /\ last.op \in WrapOps
    /\ InRange
    /\ Len(TextOccurrences) >= 2
    /\ InSpan(TextOccurrences, 1)
    /\ OutsideWindow(TextOccurrences[1])
    /\ InsideWindow(TextOccurrences[2])
    /\ InsertedAtCursor

(***************************************************************************)
(* The editor shell.  text is editor.text, loc is editor.cursor_location   *)
(* and pending holds the _set_cursor_position callbacks that               *)
(* call_after_refresh has queued and the refresh has not yet run, each     *)
(* with the offset it was given and the text that offset was computed      *)
(* for.  A formatting action is the whole of _format_text; the queued      *)
(* callback runs later, and a key press that is already waiting is handled *)
(* before it.  pos is the offset the last _format_text read.               *)
(***************************************************************************)
\* the texts the editor starts with
HostTexts == TextsUpTo({"a", "-", NL}, MaxHostInit)

\* the cursor locations of a text: a row and a column of that row
Locations(t) ==
    {<<row, col>> : row \in 0..(Len(split(t)) - 1), col \in 0..Len(t)} \cap
    {l \in (0..Len(t)) \X (0..Len(t)) : l[2] <= Len(split(t)[l[1] + 1])}

\* editor.cursor_location after "self.editor.text = text": the widget
\* keeps the location where the new text has it, or moves it to the start
AfterTextAssigned(l, t) == ({l} \cap Locations(t)) \cup {<<0, 0>>}

\* editor.cursor_location after "self.editor.cursor_location = l": the
\* widget keeps a location inside the text, the column within its row
Visitable(l, t) ==
    LET row == Clamp(l[1], Len(split(t)) - 1)
    IN  <<row, Clamp(l[2], Len(split(t)[row + 1]))>>

InitHost ==
    /\ text \in HostTexts
    /\ loc \in Locations(text)
    /\ pos = 0
    /\ last = NoCall
    /\ pending = <<>>

\* Writ._format_text(func, *args)
format_text(op, level) ==
    LET p == get_cursor_position(text, loc)
        r == Apply(op, level, text, p)
    IN  /\ Len(text) <= MaxHostLen
        /\ Len(pending) < MaxPending
        /\ ~r.raised
        /\ pos' = p
        /\ text' = r.text
        /\ loc' \in AfterTextAssigned(loc, r.text)
        /\ pending' = Append(pending, [pos |-> r.pos, text |-> r.text])
        /\ last' = [op |-> op, level |-> level, text |-> text, pos |-> p,
                    loc |-> loc, raised |-> FALSE, before |-> last.op]

action_bold == format_text("bold", 0)

action_italic == format_text("italic", 0)

action_inline_code == format_text("inlineCode", 0)

action_link == format_text("link", 0)

action_code_block == format_text("codeBlock", 0)

action_list == format_text("listItem", 0)

\* action_h1 .. action_h6
action_h == \E level \in 1..6 : format_text("heading", level)

\* the refresh runs the oldest queued _set_cursor_position(new_pos)
Refresh ==
    /\ pending # <<>>
    /\ loc' = Visitable(set_cursor_position(text, Head(pending).pos), text)
    /\ pending' = Tail(pending)
    /\ last' = [op |-> "refresh", level |-> 0, text |-> text,
                pos |-> Head(pending).pos, loc |-> loc, raised |-> FALSE,
                before |-> last.op]
    /\ UNCHANGED <<text, pos>>

NextHost ==
    \/ action_bold
    \/ action_italic
    \/ action_inline_code
    \/ action_link
    \/ action_code_block
    \/ action_list
    \/ action_h
    \/ Refresh

SpecHost == InitHost /\ [][NextHost]_vars

(***************************************************************************)
(* C13  The shell applies each formatting result atomically and strictly   *)
(* sequentially: after a formatting action has replaced the text, the      *)
(* cursor is repositioned before any other action runs, so no formatting   *)
(* action reads the new text with a cursor not yet repositioned, and a     *)
(* queued reposition is never applied to a text other than the one it was  *)
(* computed for.                                                           *)
(* The code breaks it: _format_text replaces the text at once and defers   *)
(* the reposition with call_after_refresh, so a second formatting action   *)
(* can run in between.                                                     *)
(***************************************************************************)
C13_AtomicReposition ==
    [][/\ last'.op \in FormatOps => pending = <<>>
       /\ last'.op = "refresh" => Head(pending).text = text]_vars

(***************************************************************************)
(* C14  Frame of the line operations: for every text and in-range offset,  *)
(* setHeading (level 1..6) and toggleListItem change only the line that    *)
(* holds the offset: everything before the start of that line and          *)
(* everything from its end on is the same before and after, and what       *)
(* stands between is still one line, so the number of lines is unchanged.  *)
(***************************************************************************)
C14_LineFrame ==
    (FormatCall /\ last.op \in {"heading", "listItem"} /\ InRange) =>
        LET b == LineStartOf(last.text, last.pos)
            e == LineEndOf(last.text, last.pos)
            rest == Len(last.text) - e
        IN  /\ ~last.raised
            /\ Len(text) >= b + rest
            /\ SubSeq(text, 1, b) = SubSeq(last.text, 1, b)
            /\ SubSeq(text, Len(text) - rest + 1, Len(text))
                   = SubSeq(last.text, e + 1, Len(last.text))
            /\ \A j \in (b + 1)..(Len(text) - rest) : text[j] # NL

\* a line with lines before and after it was rewritten
C14_Witness ==
    /\ FormatCall /\ last.op \in {"heading", "listItem"} /\ InRange
    /\ LineStartOf(last.text, last.pos) > 0
    /\ LineEndOf(last.text, last.pos) < Len(last.text)
    /\ text # last.text

====
